---- MODULE Spec2Model ----
(***************************************************************************)
(* Reverse-diffusion reconstruction (utils/reconstruction.py): the three   *)
(* entry points reconstruct_single_step, reconstruct and                   *)
(* reconstruct_sequentially, one call per behaviour.                       *)
(*                                                                         *)
(* Numbers are exact rationals [n, d] (d > 0, lowest terms) plus NaN       *)
(* (d = 0), the one float value that clip() does not bring into range.     *)
(* A sample is modelled by one of its elements: every operation of the     *)
(* source on a sample is elementwise.  Python sequences are functions      *)
(* over 0..len-1, so that indices read as in the source.                   *)
(***************************************************************************)
EXTENDS Integers, Sequences, FiniteSets

\* ------------------------------------------------------------- bounds
\* Largest start timestep t tried.
MaxT == 4
\* Largest step_size tried.
MaxStep == 5

\* ------------------------------------------------------ exact numbers
Abs(k) == IF k < 0 THEN -k ELSE k

RECURSIVE GCD(_, _)
GCD(a, b) == IF b = 0 THEN a ELSE GCD(b, a % b)

NaN == [n |-> 0, d |-> 0]
IsNaN(a) == a.d = 0

Rat(p, q) ==
    IF q = 0 THEN NaN
    ELSE LET g == GCD(Abs(p), Abs(q))
             s == IF q < 0 THEN -1 ELSE 1
         IN  [n |-> s * ((Abs(p) \div g) * (IF p < 0 THEN -1 ELSE 1)), d |-> Abs(q) \div g]

Zero == Rat(0, 1)
One == Rat(1, 1)

Lcm(a, b) == (a \div GCD(a, b)) * b

\* Sums over the least common denominator and products after cross
\* cancellation, so that intermediate integers stay small.
Add(a, b) ==
    IF IsNaN(a) \/ IsNaN(b) THEN NaN
    ELSE LET l == Lcm(a.d, b.d)
         IN  Rat(a.n * (l \div a.d) + b.n * (l \div b.d), l)
Sub(a, b) == IF IsNaN(b) THEN NaN ELSE Add(a, [n |-> -b.n, d |-> b.d])
Mul(a, b) ==
    IF IsNaN(a) \/ IsNaN(b) THEN NaN
    ELSE LET g == GCD(Abs(a.n), b.d)
             h == GCD(Abs(b.n), a.d)
         IN  Rat((a.n \div g) * (b.n \div h), (a.d \div h) * (b.d \div g))
\* No schedule of the model makes a divisor zero.
Div(a, b) ==
    IF IsNaN(a) \/ IsNaN(b) \/ b.n = 0 THEN NaN
    ELSE Mul(a, [n |-> IF b.n < 0 THEN -b.d ELSE b.d, d |-> Abs(b.n)])
Less(a, b) == a.n * b.d < b.n * a.d

RECURSIVE ISqrtIn(_, _, _)
\* The largest r in lo..hi with r*r <= k (bisection).
ISqrtIn(k, lo, hi) ==
    IF lo >= hi THEN lo
    ELSE LET mid == (lo + hi + 1) \div 2
         IN  IF mid * mid <= k THEN ISqrtIn(k, mid, hi) ELSE ISqrtIn(k, lo, mid - 1)

ISqrt(k) == ISqrtIn(k, 0, IF k < 40000 THEN k ELSE 40000)
IsSquare(k) == k >= 0 /\ ISqrt(k) * ISqrt(k) = k

\* sqrt, exact: the schedules of the model have rational square roots
\* wherever the source takes one; sqrt of a negative number is NaN.
Sqrt(a) ==
    IF IsNaN(a) \/ a.n < 0 \/ ~IsSquare(a.n) \/ ~IsSquare(a.d) THEN NaN
    ELSE Rat(ISqrt(a.n), ISqrt(a.d))

\* numpy's clip(lo, hi): minimum(maximum(a, lo), hi); NaN stays NaN.
Clip(a, lo, hi) ==
    IF IsNaN(a) THEN NaN
    ELSE IF Less(a, lo) THEN lo
    ELSE IF Less(hi, a) THEN hi
    ELSE a

InUnit(a) == ~IsNaN(a) /\ ~Less(a, Zero) /\ ~Less(One, a)

\* Truncation toward zero of a finite number.
Trunc(a) == IF a.n >= 0 THEN a.n \div a.d ELSE -((-a.n) \div a.d)

\* --------------------------------------------------- Python sequences
PyLen(a) == Cardinality(DOMAIN a)
\* a[k] raises IndexError unless -len <= k < len; a negative k in that
\* range silently counts from the end.
PyInRange(a, k) == -PyLen(a) <= k /\ k < PyLen(a)
PyGet(a, k) == a[IF k < 0 THEN k + PyLen(a) ELSE k]

\* ------------------------------------------------------------- inputs
\* sqrt(alpha_bar) at timesteps 1, 2, ...: cosines of rational points of
\* the unit circle, so that sqrt(alpha_bar), sqrt(1 - alpha_bar) and the
\* ratios between them are all rational.
CosNum == <<24, 4, 3, 7, 9>>
CosDen == <<25, 5, 5, 25, 41>>
Cos(k) == IF k = 0 THEN One ELSE Rat(CosNum[k], CosDen[k])

\* The variance schedule of length len whose retained signal at timestep
\* k is Cos(k)^2; position 0 is the unused base case.
ScheduleOf(len) ==
    [k \in 0..(len - 1) |->
        IF k = 0 THEN Zero
        ELSE Sub(One, Mul(Div(Cos(k), Cos(k - 1)), Div(Cos(k), Cos(k - 1))))]

Schedules == {ScheduleOf(Len(CosNum) + 1), ScheduleOf(3)}
Samples == {Rat(-1, 2), Rat(1, 2), Rat(3, 2), NaN}
Oversteps == {Zero, Rat(1, 2)}
\* sigma=None, a scalar, or a list (here of two equal entries).
NoSigma == [kind |-> "None", val |-> Zero]
Sigmas == {NoSigma, [kind |-> "scalar", val |-> Zero], [kind |-> "scalar", val |-> Rat(1, 4)],
           [kind |-> "list", val |-> Rat(1, 4)]}
\* Outcomes of torch.randn for the one element modelled.
Randn == {Rat(-1, 1), Rat(1, 1)}
Nets == {"zeros", "ident", "time", "nan"}
Functions == {"reconstruct_single_step", "reconstruct", "reconstruct_sequentially"}

\* The noise predictor net(x, t): a fixed function of the sample and the
\* timestep, of one of four kinds.
Net(kind, x, ti) ==
    CASE kind = "zeros" -> Zero
      [] kind = "ident" -> x
      [] kind = "time" -> Rat(ti, 2)
      [] OTHER -> NaN

\* ------------------------------------------------------ schedule math
RECURSIVE CumProd(_, _)
CumProd(vs, k) == IF k = 0 THEN One ELSE Mul(CumProd(vs, k - 1), Sub(One, vs[k]))

\* alpha_bar[0] = 1 and alpha_bar[k] = alpha_bar[k-1] * (1 - beta[k]),
\* of the schedule's length.
get_alpha_bar(vs) == [k \in DOMAIN vs |-> CumProd(vs, k)]

\* sigma=None -> zeros(t); a scalar -> ones(t) * sigma; a list is kept.
SigmaSeq(sig, t0) ==
    IF sig.kind = "list" THEN [k \in 0..1 |-> sig.val]
    ELSE [k \in 0..(t0 - 1) |-> IF sig.kind = "None" THEN Zero ELSE Mul(One, sig.val)]

\* ------------------------------------------------------- update rules
\* The strided step with the ratio f taken against the wrong neighbour.
Mut_StridedUpdate(x0, pred_noise, ab, ti, step, over, sig, z) ==
    LET f == Div(PyGet(ab, ti - step), PyGet(ab, ti))
    IN  Add(Div(Sub(x0, Div(Mul(Mul(Add(One, over), pred_noise), Sub(One, f)),
                            Sqrt(Sub(One, PyGet(ab, ti))))),
                Sqrt(f)),
            Mul(PyGet(sig, ti), z))

\* One strided reverse step (reconstruct's loop body), from timestep ti
\* to ti - step, with z the draw of torch.randn.
StridedUpdate(x0, pred_noise, ab, ti, step, over, sig, z) ==
    LET f == Div(PyGet(ab, ti), PyGet(ab, ti - step))
    IN  Add(Div(Sub(x0, Div(Mul(Mul(Add(One, over), pred_noise), Sub(One, f)),
                            Sqrt(Sub(One, PyGet(ab, ti))))),
                Sqrt(f)),
            Mul(PyGet(sig, ti), z))

\* One unit reverse step (reconstruct_sequentially's loop body).
UnitUpdate(x0, pred_noise, beta, ab, ti, sig, z) ==
    Add(Div(Sub(x0, Div(Mul(pred_noise, PyGet(beta, ti)),
                        Sqrt(Sub(One, PyGet(ab, ti))))),
            Sqrt(Sub(One, PyGet(beta, ti)))),
        Mul(PyGet(sig, ti), z))

\* The direct estimate of reconstruct_single_step, clipped on return; the
\* inner clip applies to sqrt(alpha_bar) alone.
SingleStepEstimate(noisy, pred_noise, ab_t) ==
    Clip(Div(Sub(noisy, Mul(pred_noise, Sqrt(Sub(One, ab_t)))),
             Clip(Sqrt(ab_t), Zero, One)),
         Zero, One)

\* ------------------------------------------------------- quantization
\* astype(np.uint8) of a float: truncation when the value is in 0..255.
\* Out of range the C conversion is undefined: builds wrap modulo 256 or
\* saturate.  NaN converts to 0.
AsUint8(v) ==
    IF IsNaN(v) THEN {0}
    ELSE IF Trunc(v) >= 0 /\ Trunc(v) <= 255 THEN {Trunc(v)}
    ELSE {Trunc(v) % 256, IF Trunc(v) < 0 THEN 0 ELSE 255}

\* The initial frame: written unclipped, then (reconstructions*255).astype.
InitialFrame(noisy) == AsUint8(Mul(noisy, Rat(255, 1)))

\* A snapshot of the loop: (x.clip(0, 1)*255).astype(np.uint8).
Snapshot(x0) == AsUint8(Mul(Clip(x0, Zero, One), Rat(255, 1)))

\* -------------------------------------------------------------- state
VARIABLES
    fn,                 \* the entry point called
    net,                \* the noise predictor (its kind)
    noisy_image,        \* the input sample
    t,                  \* the start timestep
    variance_schedule,  \* the sequence of beta
    step_size,          \* reconstruct only
    overstep,           \* reconstruct only
    sigma,              \* None or a scalar (reconstruct, reconstruct_sequentially)
    return_sequences,   \* reconstruct only
    pc,                 \* "start", "loop", "done" or "error"
    x,                  \* the sample carried through the loop
    i,                  \* the loop variable still to run (i, or ti in reconstruct_sequentially)
    t_tensor,           \* whether the local t_tensor is bound
    reconstructions,    \* the uint8 trajectory buffer
    calls,              \* history: the predictor's invocations, [x, ti], in order
    reads,              \* history: the index reads of the loop, [arr, k, len]
    writes,             \* history: the writes to reconstructions, [k, v, ti], in order
    ret,                \* what the call returned
    err                 \* the exception that ended the call

vars == <<fn, net, noisy_image, t, variance_schedule, step_size, overstep, sigma,
          return_sequences, pc, x, i, t_tensor, reconstructions, calls, reads,
          writes, ret, err>>

inputs == <<fn, net, noisy_image, t, variance_schedule, step_size, overstep, sigma,
            return_sequences>>

alpha_bar == get_alpha_bar(variance_schedule)
sigma_seq == SigmaSeq(sigma, t)

NoReturn == [kind |-> "none", sample |-> NaN, sequences |-> <<>>]
ReturnSample(v) == [kind |-> "sample", sample |-> v, sequences |-> <<>>]
ReturnSequences(r) == [kind |-> "sequences", sample |-> NaN, sequences |-> r]

Init ==
    /\ fn \in Functions
    /\ net \in Nets
    /\ noisy_image \in Samples
    /\ t \in 1..MaxT
    /\ variance_schedule \in Schedules
    /\ step_size \in IF fn = "reconstruct" THEN 1..MaxStep ELSE {1}
    /\ overstep \in IF fn = "reconstruct" THEN Oversteps ELSE {Zero}
    /\ sigma \in IF fn = "reconstruct_single_step" THEN {NoSigma} ELSE Sigmas
    /\ return_sequences \in IF fn = "reconstruct" THEN BOOLEAN ELSE {FALSE}
    /\ pc = "start"
    /\ x = noisy_image
    /\ i = 0
    /\ t_tensor = FALSE
    /\ reconstructions = <<>>
    /\ calls = <<>>
    /\ reads = {}
    /\ writes = <<>>
    /\ ret = NoReturn
    /\ err = "none"

Raise(e) ==
    /\ pc' = "error"
    /\ err' = e

Read(arr, name, k) == [arr |-> name, k |-> k, len |-> PyLen(arr)]

\* ---------------------------------------------- reconstruct_single_step
reconstruct_single_step ==
    /\ pc = "start"
    /\ fn = "reconstruct_single_step"
    /\ calls' = Append(calls, [x |-> noisy_image, ti |-> t])
    /\ IF PyInRange(alpha_bar, t)
       THEN /\ pc' = "done"
            /\ ret' = ReturnSample(SingleStepEstimate(noisy_image,
                                       Net(net, noisy_image, t), PyGet(alpha_bar, t)))
            /\ err' = err
       ELSE /\ Raise("IndexError")
            /\ ret' = ret
    /\ UNCHANGED <<inputs, x, i, t_tensor, reconstructions, reads, writes>>

\* ---------------------------------------------------------- reconstruct
\* A buffer that always holds the initial frame.
Mut_NumFrames(t0, step) == IF t0 \div step = 0 THEN 1 ELSE t0 \div step

\* The number of frames allocated: np.zeros((t//step_size,) + shape).
NumFrames(t0, step) == t0 \div step

\* The loop started one index higher: reversed(range(1, t//step_size + 1)).
Mut_FirstIndex(t0, step) == t0 \div step

\* The first value of i: reversed(range(1, t//step_size)).
FirstIndex(t0, step) == t0 \div step - 1

\* The true timestep of step index i.
Timestep(idx, step) == idx * step

\* The snapshot written one frame early.
Mut_FrameIndex(t0, step, idx) == t0 \div step - idx - 1

\* The frame a loop snapshot is written to.
FrameIndex(t0, step, idx) == t0 \div step - idx

\* The sample returned as it is.
Mut_FinalSample(x0) == x0

\* The value returned when return_sequences is false: x.clip(0, 1).
FinalSample(x0) == Clip(x0, Zero, One)

\* Up to the loop: the buffer is allocated and frame 0 written, which
\* raises IndexError when the buffer has no frame.
reconstruct_setup ==
    /\ pc = "start"
    /\ fn = "reconstruct"
    /\ IF NumFrames(t, step_size) = 0
       THEN /\ Raise("IndexError")
            /\ UNCHANGED <<reconstructions, writes, i>>
       ELSE /\ \E v \in InitialFrame(noisy_image) :
                 /\ reconstructions' =
                        [k \in 0..(NumFrames(t, step_size) - 1) |-> IF k = 0 THEN v ELSE 0]
                 /\ writes' = Append(writes, [k |-> 0, v |-> noisy_image, ti |-> t])
            /\ i' = FirstIndex(t, step_size)
            /\ pc' = "loop"
            /\ err' = err
    /\ x' = noisy_image
    /\ UNCHANGED <<inputs, t_tensor, calls, reads, ret>>

\* One iteration of the loop.
reconstruct_iterate ==
    /\ pc = "loop"
    /\ fn = "reconstruct"
    /\ i >= 1
    /\ LET ti == Timestep(i, step_size)
           k == FrameIndex(t, step_size, i)
       IN  /\ calls' = Append(calls, [x |-> x, ti |-> ti])
           /\ t_tensor' = TRUE
           /\ reads' = reads \cup {Read(alpha_bar, "alpha_bar", ti),
                                   Read(alpha_bar, "alpha_bar", ti - step_size),
                                   Read(sigma_seq, "sigma", ti)}
           /\ IF /\ PyInRange(alpha_bar, ti)
                 /\ PyInRange(alpha_bar, ti - step_size)
                 /\ PyInRange(sigma_seq, ti)
                 /\ return_sequences => PyInRange(reconstructions, k)
              THEN \E z \in Randn :
                     /\ x' = StridedUpdate(x, Net(net, x, ti), alpha_bar, ti, step_size,
                                           overstep, sigma_seq, z)
                     /\ IF return_sequences
                        THEN \E v \in Snapshot(x') :
                               /\ reconstructions' =
                                    [reconstructions EXCEPT
                                       ![IF k < 0 THEN k + PyLen(reconstructions) ELSE k] = v]
                               /\ writes' = Append(writes, [k |-> k, v |-> x', ti |-> ti])
                        ELSE UNCHANGED <<reconstructions, writes>>
                     /\ i' = i - 1
                     /\ UNCHANGED <<pc, err>>
              ELSE /\ Raise("IndexError")
                   /\ UNCHANGED <<x, i, reconstructions, writes>>
    /\ UNCHANGED <<inputs, ret>>

\* After the loop: del t_tensor, then the return.
reconstruct_finish ==
    /\ pc = "loop"
    /\ fn = "reconstruct"
    /\ i < 1
    /\ IF t_tensor
       THEN /\ pc' = "done"
            /\ ret' = IF return_sequences THEN ReturnSequences(reconstructions)
                      ELSE ReturnSample(FinalSample(x))
            /\ err' = err
       ELSE /\ Raise("UnboundLocalError")
            /\ ret' = ret
    /\ UNCHANGED <<inputs, x, i, t_tensor, reconstructions, calls, reads, writes>>

\* --------------------------------------------- reconstruct_sequentially
\* The first value of ti: reversed(range(1, t)).
FirstTimestep(t0) == t0 - 1

reconstruct_sequentially_setup ==
    /\ pc = "start"
    /\ fn = "reconstruct_sequentially"
    /\ x' = noisy_image
    /\ i' = FirstTimestep(t)
    /\ pc' = "loop"
    /\ UNCHANGED <<inputs, t_tensor, reconstructions, calls, reads, writes, ret, err>>

reconstruct_sequentially_iterate ==
    /\ pc = "loop"
    /\ fn = "reconstruct_sequentially"
    /\ i >= 1
    /\ calls' = Append(calls, [x |-> x, ti |-> i])
    /\ t_tensor' = TRUE
    /\ reads' = reads \cup {Read(variance_schedule, "beta", i),
                            Read(alpha_bar, "alpha_bar", i),
                            Read(sigma_seq, "sigma", i)}
    /\ IF /\ PyInRange(variance_schedule, i)
          /\ PyInRange(alpha_bar, i)
          /\ PyInRange(sigma_seq, i)
       THEN \E z \in Randn :
              /\ x' = UnitUpdate(x, Net(net, x, i), variance_schedule, alpha_bar, i,
                                 sigma_seq, z)
              /\ i' = i - 1
              /\ UNCHANGED <<pc, err>>
       ELSE /\ Raise("IndexError")
            /\ UNCHANGED <<x, i>>
    /\ UNCHANGED <<inputs, reconstructions, writes, ret>>

reconstruct_sequentially_finish ==
    /\ pc = "loop"
    /\ fn = "reconstruct_sequentially"
    /\ i < 1
    /\ IF t_tensor
       THEN /\ pc' = "done"
            /\ ret' = ReturnSample(FinalSample(x))
            /\ err' = err
       ELSE /\ Raise("UnboundLocalError")
            /\ ret' = ret
    /\ UNCHANGED <<inputs, x, i, t_tensor, reconstructions, calls, reads, writes>>

Next ==
    \/ reconstruct_single_step
    \/ reconstruct_setup
    \/ reconstruct_iterate
    \/ reconstruct_finish
    \/ reconstruct_sequentially_setup
    \/ reconstruct_sequentially_iterate
    \/ reconstruct_sequentially_finish

Spec == Init /\ [][Next]_vars

\* The call has returned or raised.
Terminal == pc \in {"done", "error"}

\* ------------------------------------------------- model sanity checks
\* Every square root the model takes is exact: NaN arises from a NaN
\* input or a NaN prediction only.
ExactArithmetic ==
    (IsNaN(x) \/ (ret.kind = "sample" /\ IsNaN(ret.sample)))
        => (IsNaN(noisy_image) \/ net = "nan")

\* ------------------------------- reconstruct_sequentially, as a function
RECURSIVE SequentialX(_, _, _, _, _, _)
\* The sample reconstruct_sequentially carries after n iterations of its
\* loop (timesteps t0-1, ..., t0-n), for zero sigma.
SequentialX(kind, noisy, t0, vs, sig, n) ==
    IF n = 0 THEN noisy
    ELSE LET prev == SequentialX(kind, noisy, t0, vs, sig, n - 1)
         IN  UnitUpdate(prev, Net(kind, prev, t0 - n), vs, get_alpha_bar(vs), t0 - n,
                        SigmaSeq(sig, t0), Zero)

\* The exception that ends reconstruct_sequentially, or "none": the
\* first iteration reads the largest indices, and del t_tensor fails
\* when there was no iteration.
SequentialError(t0, vs, sig) ==
    IF t0 - 1 < 1 THEN "UnboundLocalError"
    ELSE IF ~PyInRange(vs, t0 - 1) \/ ~PyInRange(SigmaSeq(sig, t0), t0 - 1) THEN "IndexError"
    ELSE "none"

\* What reconstruct_sequentially returns.
SequentialReturn(kind, noisy, t0, vs, sig) ==
    IF SequentialError(t0, vs, sig) # "none" THEN NoReturn
    ELSE ReturnSample(FinalSample(SequentialX(kind, noisy, t0, vs, sig, t0 - 1)))

\* The function agrees with the steps of reconstruct_sequentially.
SequentialAgrees ==
    (fn = "reconstruct_sequentially" /\ sigma.val = Zero) =>
        /\ \A k \in 1..Len(calls) :
              calls[k].x = SequentialX(net, noisy_image, t, variance_schedule, sigma, k - 1)
        /\ Terminal =>
              /\ err = SequentialError(t, variance_schedule, sigma)
              /\ ret = SequentialReturn(net, noisy_image, t, variance_schedule, sigma)

\* ------------------------------------------------------------- claims

\* The timesteps the predictor was invoked with, in order.
CallTimesteps == [k \in 1..Len(calls) |-> calls[k].ti]

\* C1: reconstruct with step_size = t completes normally, runs no loop
\* iteration and returns the single-step estimate
\* clip((noisy - pred_noise*sqrt(1 - alpha_bar[t]))/sqrt(alpha_bar[t]), 0, 1).
C1_SingleStepMode ==
    (/\ fn = "reconstruct"
     /\ step_size = t
     /\ ~return_sequences
     /\ PyInRange(alpha_bar, t)
     /\ Terminal)
        => /\ pc = "done"
           /\ calls = <<>>
           /\ ret = ReturnSample(SingleStepEstimate(noisy_image, Net(net, noisy_image, t),
                                                    PyGet(alpha_bar, t)))

\* C2: fully sequential reconstruction from t invokes the predictor at
\* every timestep t, t-1, ..., 1, once each, in decreasing order.
C2_EveryTimestepFromT ==
    (/\ \/ fn = "reconstruct_sequentially"
        \/ fn = "reconstruct" /\ step_size = 1
     /\ pc = "done")
        => CallTimesteps = [k \in 1..t |-> t + 1 - k]

\* C3 as stated: for every t >= 1 and step_size >= 1 the loop of
\* reconstruct ends after t//step_size - 1 iterations, at the timesteps
\* i*step_size for i = t//step_size - 1, ..., 1.
C3_Original ==
    (/\ fn = "reconstruct"
     /\ PyLen(variance_schedule) >= t
     /\ sigma.kind # "list"
     /\ Terminal)
        => /\ Len(calls) = t \div step_size - 1
           /\ \A k \in 1..Len(calls) : calls[k].ti = (t \div step_size - k) * step_size

\* C3, amended: for 1 <= step_size <= t (a schedule of length at least
\* t, sigma defaulted or scalar) the step index runs through
\* t//step_size - 1, ..., 1 in decreasing order, the predictor is invoked
\* once per index with ti = i*step_size and never with ti = 0, and the
\* loop ends after t//step_size - 1 iterations; with step_size > t the
\* call fails before the loop and nothing is iterated.
C3_LoopIndices ==
    fn = "reconstruct" =>
        /\ \A k \in 1..Len(calls) :
              /\ calls[k].ti = (t \div step_size - k) * step_size
              /\ calls[k].ti >= step_size
        /\ pc = "loop" => i = t \div step_size - 1 - Len(calls)
        /\ (Terminal /\ err # "IndexError") => Len(calls) = t \div step_size - 1
        /\ (Terminal /\ step_size <= t /\ PyLen(variance_schedule) >= t /\ sigma.kind # "list")
              => err # "IndexError"
        /\ step_size > t => calls = <<>>

C3_Witness ==
    /\ fn = "reconstruct"
    /\ pc = "done"
    /\ CallTimesteps = <<3, 2, 1>>

\* C4: with step_size = 1, overstep = 0 and zero sigma, reconstruct
\* visits the timesteps of reconstruct_sequentially, carries the same
\* sample into every predictor call and ends with the same outcome.
C4_StrideOneIsSequential ==
    (/\ fn = "reconstruct"
     /\ step_size = 1
     /\ overstep = Zero
     /\ sigma.val = Zero)
        => /\ \A k \in 1..Len(calls) :
                 /\ calls[k].ti = t - k
                 /\ calls[k].x = SequentialX(net, noisy_image, t, variance_schedule,
                                             sigma, k - 1)
           /\ Terminal => err = SequentialError(t, variance_schedule, sigma)
           /\ (Terminal /\ ~return_sequences)
                 => ret = SequentialReturn(net, noisy_image, t, variance_schedule, sigma)

C4_Witness ==
    /\ fn = "reconstruct"
    /\ step_size = 1
    /\ overstep = Zero
    /\ sigma.val = Zero
    /\ ~return_sequences
    /\ net = "ident"
    /\ pc = "done"
    /\ Len(calls) = 3
    /\ ret.sample # FinalSample(noisy_image)

\* C5: with a predictor returning zeros and zero sigma, reconstruct from
\* t with a stride dividing t returns the input rescaled by
\* 1/sqrt(alpha_bar[t]) and clamped to [0, 1].
C5_ZeroNoiseRescales ==
    (/\ fn = "reconstruct"
     /\ net = "zeros"
     /\ sigma.val = Zero
     /\ t % step_size = 0
     /\ ~return_sequences
     /\ PyInRange(alpha_bar, t)
     /\ pc = "done")
        => ret = ReturnSample(Clip(Div(noisy_image, Sqrt(PyGet(alpha_bar, t))), Zero, One))

\* C6: reconstruct with step_size > t ends in an index error, raised
\* before any predictor invocation and without returning anything.
C6_StrideBeyondStart ==
    (fn = "reconstruct" /\ step_size > t) =>
        /\ pc \in {"start", "error"}
        /\ pc = "error" => err = "IndexError"
        /\ calls = <<>>
        /\ ret = NoReturn

C6_Witness ==
    /\ fn = "reconstruct"
    /\ step_size > t
    /\ pc = "error"
    /\ err = "IndexError"

\* C7 as stated: for any inputs, a returned sample lies within [0, 1].
C7_Original ==
    (pc = "done" /\ ret.kind = "sample") => InUnit(ret.sample)

\* The sample the loop carries when the predictor returns zeros and sigma
\* is zero: the input times sqrt(alpha_bar[next])/sqrt(alpha_bar[first]),
\* first and next the first timestep of the loop and the one to come.
Rescaled(first, next) ==
    Div(Mul(noisy_image, Sqrt(PyGet(alpha_bar, next))), Sqrt(PyGet(alpha_bar, first)))

\* C7, amended: a returned sample is the clip to [0, 1] of the sample
\* last carried, so it lies within [0, 1] unless that sample is NaN, which
\* is returned as NaN; the clip applies at the return only: the sample
\* carried through the loop and passed to the predictor is the unclamped
\* one (with zero predicted noise and zero sigma, the input rescaled,
\* whatever its range).
C7_ClampAtReturnOnly ==
    /\ (pc = "done" /\ ret.kind = "sample") =>
          /\ IsNaN(ret.sample) \/ InUnit(ret.sample)
          /\ IsNaN(ret.sample) =>
                (IsNaN(noisy_image) \/ \E k \in 1..Len(calls) :
                                          IsNaN(Net(net, calls[k].x, calls[k].ti)))
          /\ fn # "reconstruct_single_step" => ret.sample = Clip(x, Zero, One)
    /\ (/\ fn # "reconstruct_single_step"
        /\ net = "zeros"
        /\ sigma.val = Zero
        /\ pc \in {"loop", "done"}
        /\ Len(calls) > 0) =>
          /\ x = Rescaled(calls[1].ti, IF fn = "reconstruct" THEN i * step_size ELSE i)
          /\ \A k \in 1..Len(calls) : calls[k].x = Rescaled(calls[1].ti, calls[k].ti)

C7_Witness ==
    /\ pc = "done"
    /\ ret.kind = "sample"
    /\ fn = "reconstruct"
    /\ Len(calls) >= 2
    /\ ~IsNaN(x)
    /\ Less(One, calls[2].x)
    /\ Less(One, x)
    /\ ret.sample = One

\* C8: the trajectory reconstruct returns has t//step_size entries; entry
\* 0 is the initial frame and entry k the snapshot taken right after the
\* update at timestep (t//step_size - k)*step_size; the entries are
\* written in increasing order, once each, inside the buffer, and none is
\* left unwritten.
C8_Trajectory ==
    (fn = "reconstruct" /\ pc \in {"loop", "done"}) =>
        LET n == t \div step_size
        IN  /\ PyLen(reconstructions) = n
            /\ \A j \in 1..Len(writes) :
                  /\ writes[j].k = j - 1
                  /\ writes[j].k < n
            /\ writes[1].v = noisy_image
            /\ return_sequences =>
                  /\ Len(writes) = Len(calls) + 1
                  /\ \A k \in 1..(Len(writes) - 1) :
                        /\ writes[k + 1].ti = (n - k) * step_size
                        /\ writes[k + 1].ti = calls[k].ti
                        /\ writes[k + 1].v = IF k < Len(calls) THEN calls[k + 1].x ELSE x
                        /\ reconstructions[k] \in Snapshot(writes[k + 1].v)
            /\ (pc = "done" /\ return_sequences) =>
                  /\ ret = ReturnSequences(reconstructions)
                  /\ Len(writes) = n

C8_Witness ==
    /\ fn = "reconstruct"
    /\ return_sequences
    /\ pc = "done"
    /\ Len(writes) = 4
    /\ reconstructions[3] # 0

\* floor(255 * clamp(v, 0, 1)).
Quantized(v) == Trunc(Mul(Clip(v, Zero, One), Rat(255, 1)))

\* C9: every entry of the returned trajectory, the initial frame
\* included, is floor(255*clamp(v, 0, 1)) of the sample v it records.
C9_EntriesQuantized ==
    (fn = "reconstruct" /\ return_sequences /\ pc = "done") =>
        \A j \in 1..Len(writes) :
            ~IsNaN(writes[j].v) => reconstructions[writes[j].k] = Quantized(writes[j].v)

\* C10: with 1 <= step_size <= t, a schedule of length at least t and
\* sigma defaulted or scalar, no index read of a loop is negative or past
\* the end: in reconstruct 0 <= ti - step_size < ti <= t - step_size < t,
\* in reconstruct_sequentially 1 <= ti <= t - 1.
C10_IndicesInRange ==
    (/\ fn # "reconstruct_single_step"
     /\ step_size <= t
     /\ PyLen(variance_schedule) >= t
     /\ sigma.kind # "list") =>
        /\ err # "IndexError"
        /\ \A r \in reads : 0 <= r.k /\ r.k < r.len
        /\ \A k \in 1..Len(calls) :
              IF fn = "reconstruct"
              THEN /\ 0 <= calls[k].ti - step_size
                   /\ calls[k].ti <= t - step_size
                   /\ {[arr |-> "alpha_bar", k |-> calls[k].ti,
                        len |-> PyLen(variance_schedule)],
                       [arr |-> "alpha_bar", k |-> calls[k].ti - step_size,
                        len |-> PyLen(variance_schedule)],
                       [arr |-> "sigma", k |-> calls[k].ti, len |-> t]} \subseteq reads
              ELSE /\ 1 <= calls[k].ti
                   /\ calls[k].ti <= t - 1
                   /\ {[arr |-> "beta", k |-> calls[k].ti,
                        len |-> PyLen(variance_schedule)],
                       [arr |-> "alpha_bar", k |-> calls[k].ti,
                        len |-> PyLen(variance_schedule)],
                       [arr |-> "sigma", k |-> calls[k].ti, len |-> t]} \subseteq reads

C10_Witness ==
    /\ fn = "reconstruct"
    /\ pc = "done"
    /\ t = PyLen(variance_schedule)
    /\ [arr |-> "alpha_bar", k |-> 0, len |-> t] \in reads
    /\ [arr |-> "sigma", k |-> t - 1, len |-> t] \in reads

====
